---------------------------- MODULE Spec2Model ----------------------------
(***************************************************************************)
(* A model of PyScaffold's command line interface (src/pyscaffold/cli.py): *)
(* the selection and loading of profile argument files, the expansion of   *)
(* argument files, the parsing of the options record, and the two commands *)
(* main() dispatches to (run_scaffold and list_actions).                   *)
(*                                                                         *)
(* Text is modelled as a sequence of symbols.  A symbol is either the path *)
(* separator or a chunk of text that holds no separator, so that a word    *)
(* such as  my-project/  is  <<"p", "/">>.                                 *)
(***************************************************************************)
EXTENDS Integers, Sequences, FiniteSets, TLC

VARIABLES
    \* --- the environment parse_args reads
    argv,        \* the explicit command line arguments (sys.argv[1:])
    profile,     \* os.getenv('PYSCAFFOLD_PROFILE'): [set |-> BOOLEAN, val |-> STRING]
    files,       \* the argument files on disk: path -> sequence of tokens
    environ,     \* os.environ: HOME, APPDATA, XDG_CONFIG_HOME (None: not set)
    dirs,        \* the paths os.path.exists() finds
    exhaust,     \* which resource a runaway expansion exhausts first
    \* --- the run of the program
    pc,          \* "start", "parsed", "done", "exit"
    result,      \* what parse_args returned or raised
    exitcode,    \* the status the process ends with (-1: still running)
    configDir,   \* what a call of get_config_dir() returned (None: no call yet)
    \* --- the project tree and the effects of the commands
    structure,   \* the proposed structure: path -> marker
    disk0,       \* the project tree before the run: path -> content
    disk,        \* the project tree now
    report,      \* the RunReport: sequence of <<kind, subject>>
    stdout,      \* the lines printed
    ran,         \* the external commands executed
    \* --- the action registry
    plan,        \* the working list of action identifiers
    hooks,       \* the hook operations applied so far, in order
    regError,    \* a hook could not be resolved
    \* --- the tokeniser
    text,        \* the content of an argument file: a sequence of characters
    expanded     \* the tokens the file expands to, or an error

envVars  == <<argv, profile, files, environ, dirs, exhaust>>
runVars  == <<pc, result, exitcode>>
cfgVars  == <<configDir>>
fsVars   == <<structure, disk0, disk, report, stdout, ran>>
regVars  == <<plan, hooks, regError>>
tokVars  == <<text, expanded>>
vars     == <<envVars, runVars, cfgVars, fsVars, regVars, tokVars>>

\* --------------------------------------------------------------- bounds
MaxArgs == 3          \* the longest explicit command line
RecursionLimit == 3   \* the deepest nesting of argument files the interpreter allows
MaxFileLen == 2       \* the longest argument file, in tokens
MaxText == 5          \* the longest argument file, in characters
MaxHooks == 3         \* the most hook operations the extensions register

Max(a, b) == IF a >= b THEN a ELSE b

SeqUpTo(S, n) == UNION {[1..k -> S] : k \in 0..n}

\* --------------------------------------------------------------- tokens
\* A command line token: an option string (opt), a plain word (opt = "")
\* or a reference to an argument file (opt = "@", val the path).
Flag(s)    == [opt |-> s,   val |-> <<>>]
Word(w)    == [opt |-> "",  val |-> w]
FileRef(p) == [opt |-> "@", val |-> p]

FROMFILE_PREFIX == "@"
OS_SEP == "/"
None == <<"<None>">>   \* Python's None: no word holds the symbol "<None>"

W_p       == <<"p">>
W_pslash  == <<"p", "/">>
W_slash   == <<"/">>
W_none    == <<"none">>
W_mozilla == <<"mozilla">>

\* ------------------------------------------------------- configuration
\* A path is the sequence of its segments; "${X}" is a segment that refers to
\* the environment variable X.
OSX_CONFIG  == <<"${HOME}", "Library", "Application Support">>
WIN_CONFIG  == <<"${APPDATA}">>
XDG_CONFIG  == <<"${XDG_CONFIG_HOME}">>
UNIX_CONFIG == <<"${HOME}", ".config">>
DEFAULT_PROFILE == "default"

EnvNames == {"HOME", "APPDATA", "XDG_CONFIG_HOME"}

VarOf(seg) ==
    CASE seg = "${HOME}"            -> "HOME"
      [] seg = "${APPDATA}"         -> "APPDATA"
      [] seg = "${XDG_CONFIG_HOME}" -> "XDG_CONFIG_HOME"
      [] OTHER                      -> ""

\* os.path.expandvars(path): a reference to a variable that is set is
\* replaced by its value, a reference to one that is not set is left as
\* it is.
RECURSIVE expandvars(_)
expandvars(path) ==
    IF path = <<>> THEN <<>>
    ELSE LET name == VarOf(Head(path))
         IN  IF name # "" /\ environ[name] # None
             THEN environ[name] \o expandvars(Tail(path))
             ELSE <<Head(path)>> \o expandvars(Tail(path))

\* os.path.expanduser(path): a leading ~ is $HOME, or the home directory of
\* the password database when HOME is not set.
PW_DIR == <<"pw_dir">>

expanduser(path) ==
    IF path # <<>> /\ Head(path) = "~"
    THEN (IF environ["HOME"] # None THEN environ["HOME"] ELSE PW_DIR)
         \o Tail(path)
    ELSE path

\* get_config_dir(): the first candidate that exists, else ~/.pyscaffold.
\* Faulty variant: $HOME/.config is tried before $XDG_CONFIG_HOME
CANDIDATES_home_first ==
    <<expandvars(OSX_CONFIG), expandvars(WIN_CONFIG),
      expandvars(UNIX_CONFIG), expandvars(XDG_CONFIG)>>

CANDIDATES ==
    <<expandvars(OSX_CONFIG), expandvars(WIN_CONFIG),
      expandvars(XDG_CONFIG), expandvars(UNIX_CONFIG)>>

RECURSIVE FirstExisting(_, _)
FirstExisting(cands, existing) ==
    IF cands = <<>> THEN expanduser(<<"~", ".pyscaffold">>)
    ELSE IF Head(cands) \in existing THEN Head(cands) \o <<"pyscaffold">>
    ELSE FirstExisting(Tail(cands), existing)

get_config_dir(existing) == FirstExisting(CANDIDATES, existing)

\* get_args_file(profile): `profile or DEFAULT_PROFILE`: an unset variable
\* (None) and an empty one both select the default profile.
ProfileName(prof) ==
    IF prof.set /\ prof.val # "" THEN prof.val ELSE DEFAULT_PROFILE

get_args_file(prof, existing) ==
    get_config_dir(existing) \o <<ProfileName(prof), ".args">>

\* ------------------------------------------------------ the option table
\* add_default_args: option string -> the action argparse takes.
\*   store:       takes one argument and stores it in dest
\*   store_true:  stores TRUE in dest
\*   store_const: stores const in dest
\*   version:     prints the version and exits 0
\*   help:        prints the help and exits 0
LICENSE_CHOICES == {W_none, W_mozilla}

StoreOptions ==
    [o \in {"-p", "--package"} |-> "package"] @@
    [o \in {"-d", "--description"} |-> "description"] @@
    [o \in {"-u", "--url"} |-> "url"] @@
    [o \in {"-l", "--license"} |-> "license"]

\* Faulty variant: --pretend / --dry-run store into the wrong dest
StoreTrueOptions_pretend_lost ==
    [o \in {"-f", "--force"} |-> "force"] @@
    [o \in {"-U", "--update", "--pretend", "--dry-run"} |-> "update"]

\* Faulty variant: -U / --update store into the dest of --force
StoreTrueOptions_update_forces ==
    [o \in {"-f", "--force", "-U", "--update"} |-> "force"] @@
    [o \in {"--pretend", "--dry-run"} |-> "pretend"]

StoreTrueOptions ==
    [o \in {"-f", "--force"} |-> "force"] @@
    [o \in {"-U", "--update"} |-> "update"] @@
    [o \in {"--pretend", "--dry-run"} |-> "pretend"]

StoreConstOptions ==
    [o \in {"--list-actions"} |-> [dest |-> "command", const |-> "list_actions"]] @@
    [o \in {"-q", "--quiet"} |-> [dest |-> "log_level", const |-> "CRITICAL"]]

VersionOptions == {"-v", "--version"}

\* The parser is built with argparse's default add_help: -h prints the help
\* and exits 0.
HelpOptions == {"-h", "--help"}

\* Faulty variant: --pretend and --list-actions added outside any exclusive group
MutexGroups_none == {}

\* parser.add_mutually_exclusive_group(): the dests that exclude each other.
MutexGroups == {{"pretend", "command"}}

\* The namespace before any argument is read: the defaults of
\* add_default_args and of parser.set_defaults.
Defaults ==
    [project |-> None, package |-> None, description |-> None, url |-> None,
     license |-> W_none, force |-> FALSE, update |-> FALSE, pretend |-> FALSE,
     command |-> "run_scaffold", log_level |-> "INFO", extensions |-> <<>>]

\* Options a CLI extension adds (tests/test_cli.py: --with-tox): the
\* extension's name is appended to opts['extensions'].
ExtensionOptions == [o \in {"--with-tox"} |-> "tox"]

\* ------------------------------------------------- argument file expansion
\* argparse's _read_args_from_files with fromfile_prefix_chars="@": every
\* argument that starts with the prefix is replaced, depth-first, by the
\* expansion of the file it names.  Nothing records the files already open:
\* a file is opened again however often the chain comes back to it, until the
\* interpreter gives up (`exh`: RecursionError, or OSError for too many open
\* files, which argparse reports as a usage error).  d is the number of
\* files open at this point.
RECURSIVE ReadArgsFromFiles(_, _, _, _)
ReadArgsFromFiles(fs, args, d, exh) ==
    IF args = <<>> THEN [toks |-> <<>>, err |-> "ok", depth |-> d]
    ELSE
      LET a == Head(args)
          first ==
            IF a.opt # FROMFILE_PREFIX
            THEN [toks |-> <<a>>, err |-> "ok", depth |-> d]
            ELSE IF a.val \notin DOMAIN fs
            THEN [toks |-> <<>>, err |-> "OSError", depth |-> d]
            ELSE IF d >= RecursionLimit
            THEN [toks |-> <<>>, err |-> exh, depth |-> d + 1]
            ELSE ReadArgsFromFiles(fs, fs[a.val], d + 1, exh)
      IN  IF first.err # "ok" THEN first
          ELSE LET rest == ReadArgsFromFiles(fs, Tail(args), d, exh)
               IN  [toks  |-> first.toks \o rest.toks,
                    err   |-> rest.err,
                    depth |-> Max(first.depth, rest.depth)]

\* ------------------------------------------------------------ the parser
\* parser.parse_args on the expanded arguments, left to right.
\*   status: "run" while parsing, "error" (parser.error: exit 2),
\*           "version" and "help" (printed, exit 0)
\*   seen:   the dests of the actions taken (for the exclusive groups)
\*   extras: an argument no action takes was met (reported at the end)
ParserStart ==
    [ns |-> Defaults, status |-> "run", seen |-> {}, havePos |-> FALSE,
     extras |-> FALSE]

Conflicts(d) == UNION {g \ {d} : g \in {h \in MutexGroups : d \in h}}

TakeConst(st, d, v) ==
    IF Conflicts(d) \cap st.seen # {}
    THEN [st EXCEPT !.status = "error"]
    ELSE [st EXCEPT !.ns[d] = v, !.seen = @ \cup {d}]

RECURSIVE ParseTokens(_, _)
ParseTokens(toks, st) ==
    IF toks = <<>> \/ st.status # "run" THEN st
    ELSE
      LET t == Head(toks) IN
      IF t.opt = "" THEN
          \* a positional: PROJECT takes the first, the others are extras
          IF st.havePos
          THEN ParseTokens(Tail(toks), [st EXCEPT !.extras = TRUE])
          ELSE ParseTokens(Tail(toks),
                           [st EXCEPT !.ns.project = t.val, !.havePos = TRUE])
      ELSE IF t.opt \in DOMAIN StoreOptions THEN
          \* expects exactly one argument, which may not look like an option
          IF Len(toks) < 2 \/ toks[2].opt # ""
          THEN [st EXCEPT !.status = "error"]
          ELSE IF StoreOptions[t.opt] = "license"
                  /\ toks[2].val \notin LICENSE_CHOICES
          THEN [st EXCEPT !.status = "error"]
          ELSE ParseTokens(SubSeq(toks, 3, Len(toks)),
                           [st EXCEPT !.ns[StoreOptions[t.opt]] = toks[2].val])
      ELSE IF t.opt \in DOMAIN StoreTrueOptions THEN
          ParseTokens(Tail(toks), TakeConst(st, StoreTrueOptions[t.opt], TRUE))
      ELSE IF t.opt \in DOMAIN StoreConstOptions THEN
          ParseTokens(Tail(toks),
                      TakeConst(st, StoreConstOptions[t.opt].dest,
                                StoreConstOptions[t.opt].const))
      ELSE IF t.opt \in VersionOptions THEN
          [st EXCEPT !.status = "version"]
      ELSE IF t.opt \in HelpOptions THEN
          [st EXCEPT !.status = "help"]
      ELSE IF t.opt \in DOMAIN ExtensionOptions THEN
          ParseTokens(Tail(toks),
                      [st EXCEPT !.ns.extensions =
                                     Append(@, ExtensionOptions[t.opt])])
      ELSE
          \* an option string the parser does not know
          ParseTokens(Tail(toks), [st EXCEPT !.extras = TRUE])

\* The end of parser.parse_args: PROJECT is required, and any argument left
\* over is an error.
ParserEnd(st) ==
    IF st.status # "run" THEN st
    ELSE IF ~st.havePos \/ st.extras THEN [st EXCEPT !.status = "error"]
    ELSE [st EXCEPT !.status = "ok"]

\* str.rstrip(os.sep)
RECURSIVE RStrip(_)
RStrip(w) ==
    IF w # <<>> /\ w[Len(w)] = OS_SEP
    THEN RStrip(SubSeq(w, 1, Len(w) - 1))
    ELSE w

\* getattr(logging, name)
LogLevel(name) == IF name = "CRITICAL" THEN 50 ELSE 20

\* The keys whose value may be None (the others default to a value).
WordKeys == {"project", "package", "description", "url", "license"}

\* Faulty variant: no value counts as None, nothing is dropped
IsNone_never(ns, k) == FALSE

IsNone(ns, k) == k \in WordKeys /\ ns[k] = None

\* The tail of parse_args: strip the project name, convert the log level,
\* drop the options whose value is None.
Normalise(ns) ==
    [k \in {j \in DOMAIN ns : ~IsNone(ns, j)} |->
        IF k = "project" THEN RStrip(ns[k])
        ELSE IF k = "log_level" THEN LogLevel(ns[k])
        ELSE ns[k]]

\* The arguments parse_args hands to the parser: the profile's argument file
\* is put in front of the explicit arguments, unless the profile is 'none'
\* or the file does not exist.
\* Faulty variant: the test for the profile 'none' is missing
ProfileLoaded_always(prof, fs, existing) ==
    get_args_file(prof, existing) \in DOMAIN fs

ProfileLoaded(prof, fs, existing) ==
    ~(prof.set /\ prof.val = "none") /\ get_args_file(prof, existing) \in DOMAIN fs

\* Faulty variant: the profile's file is put behind the explicit arguments
WithProfile_appended(args_file, args) == args \o <<FileRef(args_file)>>

WithProfile(args_file, args) == <<FileRef(args_file)>> \o args

FullArgs(args, prof, fs, existing) ==
    IF ProfileLoaded(prof, fs, existing)
    THEN WithProfile(get_args_file(prof, existing), args)
    ELSE args

\* parse_args(args): what it returns (status "ok", opts the record) or how
\* it ends (status "usage_error": exit 2, "version" and "help": exit 0,
\* "RecursionError": the exception leaves parse_args).  The installed
\* setuptools is taken to pass utils.check_setuptools_version().
parse_args(args, prof, fs, existing, exh) ==
    LET full == FullArgs(args, prof, fs, existing)
        rd   == ReadArgsFromFiles(fs, full, 0, exh)
        st   == ParserEnd(ParseTokens(rd.toks, ParserStart))
        base == [status |-> "usage_error", opts |-> <<>>, args |-> full,
                 toks |-> <<>>, depth |-> rd.depth]
    IN  IF rd.err = "RecursionError" THEN [base EXCEPT !.status = "RecursionError"]
        ELSE IF rd.err # "ok" THEN base
        ELSE IF st.status = "ok"
             THEN [base EXCEPT !.status = "ok", !.opts = Normalise(st.ns),
                               !.toks = rd.toks]
        ELSE IF st.status \in {"version", "help"}
             THEN [base EXCEPT !.status = st.status, !.toks = rd.toks]
        ELSE [base EXCEPT !.toks = rd.toks]

\* ------------------------------------------------------- idle components
NoResult == [status |-> "none", opts |-> <<>>, args |-> <<>>, toks |-> <<>>,
             depth |-> 0]

RunIdle == pc = "start" /\ result = NoResult /\ exitcode = -1
CfgIdle == configDir = None

\* The environment of a user whose home directory holds .config.
HOME_DIR == <<"home">>
UnixEnviron ==
    [n \in EnvNames |-> IF n = "HOME" THEN HOME_DIR ELSE None]
UnixDirs == {HOME_DIR \o <<".config">>}
FsIdle  == /\ structure = <<>> /\ disk0 = <<>> /\ disk = <<>>
           /\ report = <<>> /\ stdout = <<>> /\ ran = {}
RegIdle == plan = <<>> /\ hooks = <<>> /\ regError = FALSE
TokIdle == text = <<>> /\ expanded = [toks |-> <<>>, err |-> "none"]

\* ============================================================ parse_args
\* SpecArgs: parse_args called on its own, for every short command line,
\* every value of PYSCAFFOLD_PROFILE and every set of profile files.
ArgAlphabet ==
    {Word(W_pslash), Word(W_slash), Word(W_none),
     Flag("--license"), Flag("-d"), Flag("--pretend"), Flag("--list-actions"),
     Flag("--version")}

Unset == [set |-> FALSE, val |-> ""]
SetTo(v) == [set |-> TRUE, val |-> v]
Profiles == {Unset, SetTo("none"), SetTo("foo"), SetTo("")}

ConfigDir == HOME_DIR \o <<".config", "pyscaffold">>
ArgsPath(name) == ConfigDir \o <<name, ".args">>
ProfilePaths == {ArgsPath("default"), ArgsPath("foo"), ArgsPath("none")}
ProfileBodies ==
    {<<Flag("--license"), Word(W_mozilla)>>, <<Flag("--list-actions")>>,
     <<Flag("--description"), Word(W_mozilla)>>}

FileSystems(paths, bodies) ==
    UNION {[present -> bodies] : present \in SUBSET paths}

InitArgs ==
    /\ argv \in SeqUpTo(ArgAlphabet, MaxArgs)
    /\ profile \in Profiles
    /\ files \in FileSystems(ProfilePaths, ProfileBodies)
    /\ environ = UnixEnviron /\ dirs = UnixDirs
    /\ exhaust = "RecursionError"
    /\ RunIdle /\ CfgIdle /\ FsIdle /\ RegIdle /\ TokIdle

ExitCode(status) ==
    IF status \in {"ok", "version", "help"} THEN 0
    ELSE IF status = "usage_error" THEN 2
    ELSE 1

\* parse_args(argv)
ParseArgs ==
    /\ pc = "start"
    /\ result' = parse_args(argv, profile, files, dirs, exhaust)
    /\ pc' = IF result'.status = "ok" THEN "parsed" ELSE "exit"
    /\ exitcode' = IF result'.status = "ok" THEN exitcode
                   ELSE ExitCode(result'.status)
    /\ UNCHANGED <<envVars, cfgVars, fsVars, regVars, tokVars>>

NextArgs == ParseArgs

SpecArgs == InitArgs /\ [][NextArgs]_vars

\* ------------------------------------------------ claims about parse_args
LicenseFlags == {"-l", "--license"}
PretendFlags == {"--pretend", "--dry-run"}
ListFlags    == {"--list-actions"}
InfoFlags    == {"-v", "--version", "-h", "--help"}

Given(toks, flags) == \E i \in 1..Len(toks) : toks[i].opt \in flags

\* The argument of the last occurrence of one of `flags` in toks.
LastValue(toks, flags) ==
    LET I == {i \in 1..(Len(toks) - 1) : toks[i].opt \in flags}
        m == CHOOSE i \in I : \A j \in I : j <= i
    IN  toks[m + 1].val

SingleValued ==
    {<<"package", {"-p", "--package"}>>,
     <<"description", {"-d", "--description"}>>,
     <<"url", {"-u", "--url"}>>,
     <<"license", LicenseFlags>>}

ProfileBody == files[get_args_file(profile, dirs)]

\* C5: when parse_args loads a profile file, the parser reads the profile's
\* tokens first and the explicit arguments after them, and every
\* single-valued option given in both ends with the command line's value in
\* the options record.
C5_ExplicitOverridesProfile ==
    (pc = "parsed" /\ ProfileLoaded(profile, files, dirs)) =>
        /\ result.toks = ProfileBody \o argv
        /\ \A sv \in SingleValued :
              (Given(argv, sv[2]) /\ Given(ProfileBody, sv[2]))
                  => result.opts[sv[1]] = LastValue(argv, sv[2])

C5_Witness ==
    /\ pc = "parsed" /\ ProfileLoaded(profile, files, dirs)
    /\ Given(argv, LicenseFlags) /\ Given(ProfileBody, LicenseFlags)
    /\ LastValue(ProfileBody, LicenseFlags) = W_mozilla
    /\ result.opts.license = W_none

\* C6: with PYSCAFFOLD_PROFILE unset, a present default.args is loaded; with
\* the value 'none' no file is loaded, whatever files exist; with the value
\* 'foo', foo.args is loaded when it exists and default.args never is.
C6_ProfileSelection ==
    pc # "start" =>
        /\ (profile = Unset /\ ArgsPath("default") \in DOMAIN files)
               => result.args = <<FileRef(ArgsPath("default"))>> \o argv
        /\ profile = SetTo("none") => result.args = argv
        /\ profile = SetTo("foo") =>
               result.args = IF ArgsPath("foo") \in DOMAIN files
                             THEN <<FileRef(ArgsPath("foo"))>> \o argv
                             ELSE argv

C6_Witness ==
    /\ pc # "start" /\ profile = SetTo("none")
    /\ {ArgsPath("default"), ArgsPath("none")} \subseteq DOMAIN files
    /\ result.args = argv /\ argv # <<>>

\* C7: every options record parse_args returns has a project name that is
\* not empty and does not end with the path separator.
C7_ProjectClean ==
    pc = "parsed" =>
        /\ result.opts.project # <<>>
        /\ result.opts.project[Len(result.opts.project)] # OS_SEP

BothGiven(toks) == Given(toks, PretendFlags) /\ Given(toks, ListFlags)

\* C8 as stated: no options record has pretend set together with the
\* list_actions command, and every input that holds both flags ends as a
\* usage error.
C8_Original ==
    pc # "start" =>
        /\ result.status = "ok" =>
               ~(result.opts.pretend /\ result.opts.command = "list_actions")
        /\ BothGiven(result.toks) => result.status = "usage_error"

\* C8 as amended: no options record has pretend set together with the
\* list_actions command; an input that holds both flags yields no record and
\* runs no command: it ends as a usage error, unless a version or help flag
\* that comes before the second of the two flags ends the run first.
C8_MutuallyExclusive ==
    pc # "start" =>
        /\ result.status = "ok" =>
               ~(result.opts.pretend /\ result.opts.command = "list_actions")
        /\ BothGiven(result.toks) =>
               /\ pc = "exit"
               /\ \/ result.status = "usage_error"
                  \/ /\ result.status \in {"version", "help"}
                     /\ \E i \in 1..Len(result.toks) :
                           /\ result.toks[i].opt \in InfoFlags
                           /\ ~BothGiven(SubSeq(result.toks, 1, i - 1))

C8_Witness ==
    /\ pc = "exit" /\ result.status = "usage_error"
    /\ Given(argv, PretendFlags) /\ ~Given(argv, ListFlags)
    /\ ProfileLoaded(profile, files, dirs) /\ Given(ProfileBody, ListFlags)
    /\ Given(argv, {""}) /\ ~Given(result.toks, InfoFlags)

\* The option strings that set each key of the record.
FlagsOfKey ==
    [package     |-> {"-p", "--package"},
     description |-> {"-d", "--description"},
     url         |-> {"-u", "--url"},
     license     |-> LicenseFlags,
     force       |-> {"-f", "--force"},
     update      |-> {"-U", "--update"},
     pretend     |-> PretendFlags,
     command     |-> ListFlags,
     log_level   |-> {"-q", "--quiet"}]

\* The keys the parser gives no default, and the value an absent option has
\* in the record for the others.
NoDefaultKeys == {"package", "description", "url"}
ValueWhenAbsent ==
    [license |-> <<"none">>, force |-> FALSE, update |-> FALSE,
     pretend |-> FALSE, command |-> "run_scaffold", log_level |-> 20]

\* The keys that hold text are the ones argparse can leave at None; the
\* others hold a truth value, a command, a level or a list.
TextKeys == {"project", "package", "description", "url", "license"}

NoneFree(opts) == \A k \in DOMAIN opts \cap TextKeys : opts[k] # None

\* C12 as stated: every option absent from the input is missing from the
\* record parse_args returns, and no key of the record maps to None.
C12_Original ==
    pc = "parsed" =>
        /\ \A k \in DOMAIN FlagsOfKey :
               ~Given(result.toks, FlagsOfKey[k]) => k \notin DOMAIN result.opts
        /\ NoneFree(result.opts)

\* C12 as amended: no key of the record parse_args returns maps to None; an
\* option the parser gives no default (package, description, url) is a key
\* of the record exactly when the input gives it; an option with a default
\* that the input does not give is a key of the record with that default.
C12_AbsentPruned ==
    pc = "parsed" =>
        /\ NoneFree(result.opts)
        /\ \A k \in NoDefaultKeys :
               Given(result.toks, FlagsOfKey[k]) <=> k \in DOMAIN result.opts
        /\ \A k \in DOMAIN ValueWhenAbsent :
               ~Given(result.toks, FlagsOfKey[k]) =>
                   /\ k \in DOMAIN result.opts
                   /\ result.opts[k] = ValueWhenAbsent[k]

\* A record from an input that gives a description in the profile and
\* neither a package nor --pretend.
C12_Witness ==
    /\ pc = "parsed" /\ argv # <<>>
    /\ ProfileLoaded(profile, files, dirs)
    /\ Given(ProfileBody, FlagsOfKey["description"])
    /\ "description" \in DOMAIN result.opts
    /\ "package" \notin DOMAIN result.opts
    /\ ~Given(result.toks, PretendFlags) /\ result.opts.pretend = FALSE

\* ======================================================== get_config_dir
\* SpecConfig: get_config_dir called on its own, for every setting of the
\* three environment variables and every set of existing paths.  A variable
\* that is not set leaves its reference in the candidate as literal text,
\* which names a path relative to the working directory; such a path may
\* exist as well.
APPDATA_DIR == <<"appdata">>
XDG_DIR     == <<"xdg">>

Environs ==
    {e \in [EnvNames -> {None, <<>>, HOME_DIR, APPDATA_DIR, XDG_DIR,
                                HOME_DIR \o <<".config">>}] :
        /\ e["HOME"] \in {None, HOME_DIR}
        /\ e["APPDATA"] \in {None, APPDATA_DIR}
        /\ e["XDG_CONFIG_HOME"] \in
               {None, <<>>, XDG_DIR, HOME_DIR \o <<".config">>}}

\* os.path.exists('') is false: the empty path is never among them.
Paths ==
    {HOME_DIR \o <<"Library", "Application Support">>, APPDATA_DIR, XDG_DIR,
     HOME_DIR \o <<".config">>,
     OSX_CONFIG, WIN_CONFIG, XDG_CONFIG, UNIX_CONFIG}

InitConfig ==
    /\ environ \in Environs
    /\ dirs \in SUBSET Paths
    /\ argv = <<>> /\ profile = Unset /\ files = <<>>
    /\ exhaust = "RecursionError"
    /\ RunIdle /\ CfgIdle /\ FsIdle /\ RegIdle /\ TokIdle

\* get_config_dir()
GetConfigDir ==
    /\ configDir = None
    /\ configDir' = get_config_dir(dirs)
    /\ UNCHANGED <<envVars, runVars, fsVars, regVars, tokVars>>

NextConfig == GetConfigDir

SpecConfig == InitConfig /\ [][NextConfig]_vars

\* The search order as the specification gives it: the application-support
\* paths of macOS and of Windows, then $XDG_CONFIG_HOME, then $HOME/.config.
SearchOrder ==
    <<expandvars(<<"${HOME}", "Library", "Application Support">>),
      expandvars(<<"${APPDATA}">>),
      expandvars(<<"${XDG_CONFIG_HOME}">>),
      expandvars(<<"${HOME}", ".config">>)>>

HomeDotFolder == expanduser(<<"~", ".pyscaffold">>)

FirstFound(i) ==
    /\ SearchOrder[i] \in dirs
    /\ \A j \in 1..(i - 1) : SearchOrder[j] \notin dirs

\* C11: get_config_dir returns <dir>/pyscaffold for the first path of the
\* search order that exists, so that an earlier existing candidate wins over
\* a later one, and returns ~/.pyscaffold exactly when none of them exists.
C11_ConfigDirSearch ==
    configDir # None =>
        /\ \A i \in 1..4 :
               FirstFound(i) => configDir = SearchOrder[i] \o <<"pyscaffold">>
        /\ \A i, j \in 1..4 :
               (i < j /\ SearchOrder[i] \in dirs /\ SearchOrder[j] \in dirs
                      /\ SearchOrder[i] # SearchOrder[j])
               => configDir # SearchOrder[j] \o <<"pyscaffold">>
        /\ (configDir = HomeDotFolder)
               <=> (\A i \in 1..4 : SearchOrder[i] \notin dirs)

\* $XDG_CONFIG_HOME and $HOME/.config both exist, no application-support
\* path does: the configuration directory is the one under $XDG_CONFIG_HOME.
C11_Witness ==
    /\ configDir = XDG_DIR \o <<"pyscaffold">>
    /\ environ["XDG_CONFIG_HOME"] = XDG_DIR /\ environ["HOME"] = HOME_DIR
    /\ XDG_DIR \in dirs /\ (HOME_DIR \o <<".config">>) \in dirs
    /\ SearchOrder[1] \notin dirs /\ SearchOrder[2] \notin dirs

\* No candidate exists and HOME is not set: the fallback is returned.
C11_WitnessFallback ==
    /\ configDir = PW_DIR \o <<".pyscaffold">>
    /\ environ["HOME"] = None
    /\ \A i \in 1..4 : SearchOrder[i] \notin dirs

\* ================================================ argument file expansion
\* SpecExpand: parse_args on command lines that name argument files, for
\* every content of two files that may name each other, themselves, or a
\* file that does not exist.
UserPath(name) == <<name, ".args">>
UserPaths == {UserPath("a"), UserPath("b")}
RefAlphabet == {FileRef(UserPath("a")), FileRef(UserPath("b")), Flag("--force")}
ExpandArgs == {FileRef(UserPath("a")), FileRef(UserPath("b")), Word(W_p)}

InitExpand ==
    /\ argv \in SeqUpTo(ExpandArgs, MaxArgs)
    /\ profile = SetTo("none")
    /\ files \in FileSystems(UserPaths, SeqUpTo(RefAlphabet, MaxFileLen))
    /\ environ = UnixEnviron /\ dirs = UnixDirs
    /\ exhaust \in {"RecursionError", "EMFILE"}
    /\ RunIdle /\ CfgIdle /\ FsIdle /\ RegIdle /\ TokIdle

SpecExpand == InitExpand /\ [][NextArgs]_vars

\* The files a sequence of tokens names.
RefsOf(toks) == {toks[i].val : i \in {j \in 1..Len(toks) : toks[j].opt = "@"}}

RECURSIVE Closure(_)
Closure(S) ==
    LET n == S \cup UNION {RefsOf(files[f]) : f \in S \cap DOMAIN files}
    IN  IF n = S THEN S ELSE Closure(n)

Reachable == Closure(RefsOf(argv))
Dangling  == \E f \in Reachable : f \notin DOMAIN files
Cyclic    == \E f \in Reachable \cap DOMAIN files : f \in Closure(RefsOf(files[f]))

\* C9: the expansion of argument files ends for every inclusion graph: a
\* chain that names a missing file or comes back to a file it is expanding
\* ends as a usage error, and no file is opened while it is already open
\* (the nesting never exceeds the number of files).
C9_ExpansionEnds ==
    pc # "start" =>
        /\ result.depth <= Cardinality(DOMAIN files)
        /\ (Dangling \/ Cyclic) => result.status = "usage_error"

\* What does hold: a chain without a cycle ends, as a usage error when the
\* expansion meets a missing file.
AcyclicExpansionEnds ==
    (pc # "start" /\ ~Cyclic) =>
        /\ result.depth <= Cardinality(DOMAIN files)
        /\ Dangling => result.status = "usage_error"

\* =========================================================== the tokeniser
\* The text of an argument file is a sequence of characters.  A run of
\* ordinary characters (no blank, quote, backslash, '#' or line break) is
\* written as one symbol: shlex appends each of them to the token alike.
WHITESPACE == {" ", "\t", "\r", "\n"}
QUOTES     == {"'", "\""}
ESCAPE     == {"\\"}
ESCAPEDQUOTES == {"\""}
COMMENTERS == {"#"}

\* file.readline(): what is left after the rest of the current line.
RECURSIVE AfterLine(_)
AfterLine(cs) ==
    IF cs = <<>> THEN <<>>
    ELSE IF Head(cs) = "\n" THEN Tail(cs)
    ELSE AfterLine(Tail(cs))

\* shlex.shlex(s, posix=True) with whitespace_split, read to the end: the
\* state machine of shlex.read_token.
\*   st:     ' ' between tokens, 'a' in a word, a quote, or the escape
\*   escst:  the state an escape returns to
\*   tok:    the token so far;  quoted: the token had a quoted part
\*   out:    the tokens emitted;  cmt: the characters that start a comment
RECURSIVE Lex(_, _, _, _, _, _, _)
Lex(cs, st, escst, tok, quoted, out, cmt) ==
    LET emit == IF tok # <<>> \/ quoted THEN Append(out, tok) ELSE out IN
    IF cs = <<>> THEN
        IF st \in QUOTES THEN [toks |-> <<>>, err |-> "No closing quotation"]
        ELSE IF st \in ESCAPE THEN [toks |-> <<>>, err |-> "No escaped character"]
        ELSE [toks |-> emit, err |-> "ok"]
    ELSE
      LET c == Head(cs)
          r == Tail(cs)
      IN
      IF st = " " THEN
          IF c \in WHITESPACE THEN Lex(r, " ", escst, <<>>, FALSE, out, cmt)
          ELSE IF c \in cmt THEN Lex(AfterLine(r), " ", escst, <<>>, FALSE, out, cmt)
          ELSE IF c \in ESCAPE THEN Lex(r, c, "a", <<>>, FALSE, out, cmt)
          ELSE IF c \in QUOTES THEN Lex(r, c, escst, <<>>, FALSE, out, cmt)
          ELSE Lex(r, "a", escst, <<c>>, FALSE, out, cmt)
      ELSE IF st \in QUOTES THEN
          IF c = st THEN Lex(r, "a", escst, tok, TRUE, out, cmt)
          ELSE IF c \in ESCAPE /\ st \in ESCAPEDQUOTES
               THEN Lex(r, c, st, tok, TRUE, out, cmt)
          ELSE Lex(r, st, escst, Append(tok, c), TRUE, out, cmt)
      ELSE IF st \in ESCAPE THEN
          IF escst \in QUOTES /\ c # st /\ c # escst
          THEN Lex(r, escst, escst, tok \o <<st, c>>, quoted, out, cmt)
          ELSE Lex(r, escst, escst, Append(tok, c), quoted, out, cmt)
      ELSE \* st = "a"
          IF c \in WHITESPACE THEN Lex(r, " ", escst, <<>>, FALSE, emit, cmt)
          ELSE IF c \in cmt THEN Lex(AfterLine(r), " ", escst, <<>>, FALSE, emit, cmt)
          ELSE IF c \in QUOTES THEN Lex(r, c, escst, tok, quoted, out, cmt)
          ELSE IF c \in ESCAPE THEN Lex(r, c, "a", tok, quoted, out, cmt)
          ELSE Lex(r, "a", escst, Append(tok, c), quoted, out, cmt)

\* shlex.split(s, comments)
shlex_split(s, comments) ==
    Lex(s, " ", " ", <<>>, FALSE, <<>>, IF comments THEN COMMENTERS ELSE {})

\* Faulty variant: comments are not enabled
convert_arg_line_to_args_nocomments(arg_line) == shlex_split(arg_line, FALSE)

\* ArgumentParser.convert_arg_line_to_args(arg_line)
convert_arg_line_to_args(arg_line) == shlex_split(arg_line, TRUE)

\* str.splitlines(): the lines without their line breaks; no empty last line.
RECURSIVE SplitLines(_, _)
SplitLines(cs, line) ==
    IF cs = <<>> THEN (IF line = <<>> THEN <<>> ELSE <<line>>)
    ELSE IF Head(cs) = "\n" THEN <<line>> \o SplitLines(Tail(cs), <<>>)
    ELSE SplitLines(Tail(cs), Append(line, Head(cs)))

\* argparse reading one argument file: every line of the file is converted,
\* in order; the first line that cannot be converted raises.
RECURSIVE ConvertLines(_)
ConvertLines(lines) ==
    IF lines = <<>> THEN [toks |-> <<>>, err |-> "ok"]
    ELSE LET first == convert_arg_line_to_args(Head(lines)) IN
         IF first.err # "ok" THEN first
         ELSE LET rest == ConvertLines(Tail(lines)) IN
              IF rest.err # "ok" THEN rest
              ELSE [toks |-> first.toks \o rest.toks, err |-> "ok"]

ReadArgsFile(content) == ConvertLines(SplitLines(content, <<>>))

TextAlphabet == {"a", " ", "#", "'", "\"", "\\", "\n"}

\* The file of the documentation and the tests.
ExampleFile ==
    <<"--license", " ", "mozilla", "\n",
      "--with-tox", " ", "#", " ", "comment", "\n">>

InitTok ==
    /\ text \in SeqUpTo(TextAlphabet, MaxText) \cup {ExampleFile}
    /\ expanded = [toks |-> <<>>, err |-> "none"]
    /\ argv = <<>> /\ profile = Unset /\ files = <<>> /\ environ = UnixEnviron /\ dirs = {}
    /\ exhaust = "RecursionError"
    /\ RunIdle /\ CfgIdle /\ FsIdle /\ RegIdle

\* The expansion of one argument file.
ExpandFile ==
    /\ expanded.err = "none"
    /\ expanded' = ReadArgsFile(text)
    /\ UNCHANGED <<text, envVars, cfgVars, runVars, fsVars, regVars>>

NextTok == ExpandFile

SpecTok == InitTok /\ [][NextTok]_vars

\* ---- the reference the claim is stated with
\* The text without its comments: from a '#' to the end of its line.
RECURSIVE StripComments(_, _)
StripComments(cs, inComment) ==
    IF cs = <<>> THEN <<>>
    ELSE IF Head(cs) = "\n" THEN <<"\n">> \o StripComments(Tail(cs), FALSE)
    ELSE IF inComment \/ Head(cs) = "#" THEN StripComments(Tail(cs), TRUE)
    ELSE <<Head(cs)>> \o StripComments(Tail(cs), FALSE)

\* The words of a text: its maximal runs without a blank or a line break.
RECURSIVE WordsOf(_, _)
WordsOf(cs, w) ==
    IF cs = <<>> THEN (IF w = <<>> THEN <<>> ELSE <<w>>)
    ELSE IF Head(cs) \in {" ", "\n"}
         THEN (IF w = <<>> THEN <<>> ELSE <<w>>) \o WordsOf(Tail(cs), <<>>)
    ELSE WordsOf(Tail(cs), Append(w, Head(cs)))

PlainWords(cs) == WordsOf(StripComments(cs, FALSE), <<>>)

QuoteOrEscape == {"'", "\"", "\\"}

Has(cs, S) == \E i \in 1..Len(cs) : cs[i] \in S

\* A word with every MARK in it replaced by the characters of body.
RECURSIVE Splice(_, _)
Splice(w, body) ==
    IF w = <<>> THEN <<>>
    ELSE IF Head(w) = "<MARK>" THEN body \o Splice(Tail(w), body)
    ELSE <<Head(w)>> \o Splice(Tail(w), body)

SpliceAll(ws, body) == [i \in 1..Len(ws) |-> Splice(ws[i], body)]

\* The part of cs after its last line break.
RECURSIVE LastLine(_)
LastLine(cs) ==
    IF ~Has(cs, {"\n"}) THEN cs ELSE LastLine(Tail(cs))

\* text[i] and text[j] are a pair of quotes around a substring of one line,
\* outside any comment, and the only quotes or backslashes outside it.
QuotedAt(i, j) ==
    /\ i < j /\ text[i] \in QUOTES /\ text[j] = text[i]
    /\ ~Has(SubSeq(text, 1, i - 1), QuoteOrEscape)
    /\ ~Has(SubSeq(text, j + 1, Len(text)), QuoteOrEscape)
    /\ ~Has(LastLine(SubSeq(text, 1, i - 1)), {"#"})
    /\ ~Has(SubSeq(text, i + 1, j - 1), {text[i], "\n"})
    /\ text[i] = "\"" => ~Has(SubSeq(text, i + 1, j - 1), ESCAPE)

\* C10: an argument file expands to its words in file order.  A text
\* without quotes or backslashes expands to its blank-separated words, line
\* by line, with everything from a '#' to the end of its line left out (so
\* blank and comment-only lines give nothing); a quoted substring stays in
\* one token, verbatim, as if it were a single character of a word; and the
\* example file expands to --license, mozilla, --with-tox.
C10_FileExpansion ==
    expanded.err # "none" =>
        /\ ~Has(text, QuoteOrEscape) =>
               expanded = [toks |-> PlainWords(text), err |-> "ok"]
        /\ \A i, j \in 1..Len(text) :
               QuotedAt(i, j) =>
                   expanded =
                       [toks |-> SpliceAll(
                                    PlainWords(SubSeq(text, 1, i - 1)
                                               \o <<"<MARK>">>
                                               \o SubSeq(text, j + 1, Len(text))),
                                    SubSeq(text, i + 1, j - 1)),
                        err |-> "ok"]
        /\ text = ExampleFile =>
               expanded.toks = << <<"--license">>, <<"mozilla">>, <<"--with-tox">> >>

C10_Witness ==
    /\ text = ExampleFile
    /\ expanded = [toks |-> << <<"--license">>, <<"mozilla">>, <<"--with-tox">> >>,
                   err |-> "ok"]

C10_WitnessQuoted ==
    /\ expanded.err = "ok"
    /\ \E i, j \in 1..Len(text) :
          QuotedAt(i, j) /\ Has(SubSeq(text, i + 1, j - 1), {" "})
          /\ Has(SubSeq(text, i + 1, j - 1), {"#"})

\* ====================================================== the action registry
\* The plan api.discover_actions resolves (section 4.2 of the specification;
\* the identifiers are those tests/test_cli.py looks for).
GET_DEFAULT_OPTIONS == "pyscaffold.api:get_default_options"
VERIFY_OPTIONS      == "pyscaffold.api:verify_options_consistency"
DEFINE_STRUCTURE    == "pyscaffold.structure:define_structure"
CREATE_STRUCTURE    == "pyscaffold.structure:create_structure"
INIT_GIT            == "pyscaffold.api:init_git"
TOX_ADD_FILES       == "pyscaffold.extensions.tox:add_files"

BasePlan ==
    <<GET_DEFAULT_OPTIONS, VERIFY_OPTIONS, DEFINE_STRUCTURE, CREATE_STRUCTURE,
      INIT_GIT>>

InPlan(pl, id) == \E i \in 1..Len(pl) : pl[i] = id
IndexOf(pl, id) == CHOOSE i \in 1..Len(pl) : pl[i] = id
InsertAt(pl, pos, a) ==
    SubSeq(pl, 1, pos - 1) \o <<a>> \o SubSeq(pl, pos, Len(pl))

\* A hook operation: [op, anchor, action]; for a removal both name the
\* action removed.
InsertBefore(anchor, a) == [op |-> "before", anchor |-> anchor, action |-> a]
InsertAfter(anchor, a)  == [op |-> "after",  anchor |-> anchor, action |-> a]
Remove(a)               == [op |-> "remove", anchor |-> a, action |-> a]

\* Faulty variant: insert_after splices the action in front of its anchor
AfterPosition_before(pl, anchor) == IndexOf(pl, anchor)

\* Where insert_after puts the new action.
AfterPosition(pl, anchor) == IndexOf(pl, anchor) + 1

\* One hook applied to the working list.  The anchor is looked up in the
\* list as it is now; an identifier that is not there, or an insertion that
\* would put an identifier in the list twice, is a registration error.
Register(pl, h) ==
    IF ~InPlan(pl, h.anchor) THEN [plan |-> pl, err |-> TRUE]
    ELSE IF h.op = "remove"
    THEN [plan |-> SubSeq(pl, 1, IndexOf(pl, h.action) - 1)
                   \o SubSeq(pl, IndexOf(pl, h.action) + 1, Len(pl)),
          err |-> FALSE]
    ELSE IF InPlan(pl, h.action) THEN [plan |-> pl, err |-> TRUE]
    ELSE IF h.op = "before"
    THEN [plan |-> InsertAt(pl, IndexOf(pl, h.anchor), h.action), err |-> FALSE]
    ELSE [plan |-> InsertAt(pl, AfterPosition(pl, h.anchor), h.action),
          err |-> FALSE]

\* The hooks of the extensions, in discovery order and in declared order,
\* applied to the base plan.
RECURSIVE ApplyHooks(_, _)
ApplyHooks(pl, hs) ==
    IF hs = <<>> THEN [plan |-> pl, err |-> FALSE]
    ELSE LET r == Register(pl, Head(hs)) IN
         IF r.err THEN r ELSE ApplyHooks(r.plan, Tail(hs))

\* The actions the extensions insert, and the identifiers their hooks name
\* ("nosuch" is in no plan).
ExtActions == {"x:add_files", "y:add_files"}
Anchors ==
    {DEFINE_STRUCTURE, CREATE_STRUCTURE, INIT_GIT, "nosuch",
     "x:add_files", "y:add_files"}
Removable ==
    {DEFINE_STRUCTURE, CREATE_STRUCTURE, "nosuch", "x:add_files", "y:add_files"}

InitPlan ==
    /\ plan = BasePlan /\ hooks = <<>> /\ regError = FALSE
    /\ argv = <<>> /\ profile = Unset /\ files = <<>> /\ environ = UnixEnviron /\ dirs = {}
    /\ exhaust = "RecursionError"
    /\ RunIdle /\ CfgIdle /\ FsIdle /\ TokIdle

ApplyHook(h) ==
    /\ ~regError /\ Len(hooks) < MaxHooks
    /\ LET r == Register(plan, h) IN
          /\ plan' = r.plan
          /\ regError' = r.err
          /\ hooks' = IF r.err THEN hooks ELSE Append(hooks, h)
    /\ UNCHANGED <<envVars, cfgVars, runVars, fsVars, tokVars>>

RegisterInsertBefore ==
    \E anchor \in Anchors, a \in ExtActions : ApplyHook(InsertBefore(anchor, a))

RegisterInsertAfter ==
    \E anchor \in Anchors, a \in ExtActions : ApplyHook(InsertAfter(anchor, a))

RegisterRemove == \E a \in Removable : ApplyHook(Remove(a))

NextPlan == RegisterInsertBefore \/ RegisterInsertAfter \/ RegisterRemove

SpecPlan == InitPlan /\ [][NextPlan]_vars

\* ---- claims about the registry
Insertions == Cardinality({i \in 1..Len(hooks) : hooks[i].op # "remove"})
Removals   == Cardinality({i \in 1..Len(hooks) : hooks[i].op = "remove"})

\* The constraint hook h declares holds in the plan.
Ordered(h) ==
    IF h.op = "before"
    THEN IndexOf(plan, h.action) < IndexOf(plan, h.anchor)
    ELSE IndexOf(plan, h.action) > IndexOf(plan, h.anchor)

\* No later hook removes the action or the anchor of hook i.
Undisturbed(i) ==
    \A j \in (i + 1)..Len(hooks) :
        hooks[j].op = "remove" =>
            hooks[j].action \notin {hooks[i].action, hooks[i].anchor}

\* C2 as stated: the resolved plan has length B + I - R, and every
\* insert_before / insert_after that was registered is satisfied by the
\* plan (for the actions that are still in it).
C2_Original ==
    ~regError =>
        /\ Len(plan) = Len(BasePlan) + Insertions - Removals
        /\ \A i \in 1..Len(hooks) :
              (hooks[i].op # "remove" /\ InPlan(plan, hooks[i].action)
                  /\ InPlan(plan, hooks[i].anchor)) => Ordered(hooks[i])

\* C2 as amended: the resolved plan has length B + I - R, no identifier is
\* in it twice, and every insert_before / insert_after whose action and
\* anchor no later hook removes is satisfied by the plan.
C2_PlanResolved ==
    ~regError =>
        /\ Len(plan) = Len(BasePlan) + Insertions - Removals
        /\ \A i, j \in 1..Len(plan) : plan[i] = plan[j] => i = j
        /\ \A i \in 1..Len(hooks) :
              (hooks[i].op # "remove" /\ Undisturbed(i)) =>
                  /\ InPlan(plan, hooks[i].action)
                  /\ InPlan(plan, hooks[i].anchor)
                  /\ Ordered(hooks[i])

C2_Witness ==
    /\ ~regError /\ Len(hooks) = 3
    /\ Insertions = 2 /\ Removals = 1 /\ Len(plan) = Len(BasePlan) + 1
    /\ \E i \in 1..Len(hooks) : hooks[i].op = "after" /\ Undisturbed(i)
    /\ \E i \in 1..Len(hooks) : hooks[i].op = "before" /\ ~Undisturbed(i)

\* =================================================================== main
\* What api.create_project does with the options (sections 4.3 and 4.5 of
\* the specification): the fold over the resolved plan, the writer and the
\* report.
ROOT == "."
GenPaths == <<"setup.py", "requirements.txt", "my_project/__init__.py">>
TOX_INI == "tox.ini"
AllPaths == {"setup.py", "requirements.txt", "my_project/__init__.py", "tox.ini"}

\* The hooks the activated extensions register.
RECURSIVE HooksOf(_)
HooksOf(exts) ==
    IF exts = <<>> THEN <<>>
    ELSE (IF Head(exts) = "tox"
          THEN <<InsertAfter(DEFINE_STRUCTURE, TOX_ADD_FILES)>> ELSE <<>>)
         \o HooksOf(Tail(exts))

discover_actions(exts) == ApplyHooks(BasePlan, HooksOf(exts))

\* The writer's rule for one path: is it written?
Written(opts, marker, d, path) ==
    \/ d[path] = "absent"
    \/ opts.force
    \/ opts.update /\ marker = "managed"

\* The writer on the paths of the structure, in order.
RECURSIVE WriteAll(_, _, _, _)
WriteAll(opts, st, d, paths) ==
    IF paths = <<>> THEN [disk |-> d, report |-> <<>>]
    ELSE LET p == Head(paths)
             w == Written(opts, st[p], d, p)
             d1 == IF w /\ ~opts.pretend
                   THEN [d EXCEPT ![p] = "new",
                                  ![ROOT] = IF @ = "absent" THEN "new" ELSE @]
                   ELSE d
             rest == WriteAll(opts, st, d1, Tail(paths))
         IN  [disk   |-> rest.disk,
              report |-> (IF w THEN << <<"create", p>> >> ELSE <<>>)
                         \o rest.report]

\* One action of the plan applied to the state of the fold.
Invoke(id, opts, fold) ==
    LET f == [fold EXCEPT !.report = Append(@, <<"invoke", id>>)] IN
    IF id = VERIFY_OPTIONS THEN
        IF f.disk[ROOT] # "absent" /\ ~opts.force /\ ~opts.update
        THEN [f EXCEPT !.failed = TRUE] ELSE f
    ELSE IF id = DEFINE_STRUCTURE THEN
        [f EXCEPT !.paths = GenPaths]
    ELSE IF id = TOX_ADD_FILES THEN
        [f EXCEPT !.paths = Append(@, TOX_INI)]
    ELSE IF id = CREATE_STRUCTURE THEN
        LET w == WriteAll(opts, f.struct, f.disk, f.paths) IN
        [f EXCEPT !.disk = w.disk, !.report = @ \o w.report]
    ELSE IF id = INIT_GIT THEN
        [f EXCEPT !.report = @ \o << <<"run", "git init">>, <<"run", "git add">> >>,
                  !.ran = IF opts.pretend THEN @
                          ELSE @ \cup {"git init", "git add"}]
    ELSE f

\* The fold: it stops at the first action that fails.
RECURSIVE Fold(_, _, _)
Fold(pl, opts, fold) ==
    IF pl = <<>> \/ fold.failed THEN fold
    ELSE Fold(Tail(pl), opts, Invoke(Head(pl), opts, fold))

create_project(opts, struct, d) ==
    LET r == discover_actions(opts.extensions)
        start == [struct |-> struct, paths |-> <<>>, disk |-> d,
                  report |-> <<>>, ran |-> {}, failed |-> r.err]
    IN  Fold(r.plan, opts, start)

\* run_scaffold(opts): what it leaves behind.
run_scaffold(opts, struct, d) ==
    LET r == create_project(opts, struct, d) IN
    [disk |-> r.disk, report |-> r.report, ran |-> r.ran,
     stdout |-> IF ~r.failed /\ opts.update /\ ~opts.force
                THEN <<"Update accomplished!">> ELSE <<>>,
     exit |-> IF r.failed THEN 1 ELSE 0]

\* Faulty variant: list_actions goes on to scaffold the project
list_actions_scaffolds(opts, struct, d) ==
    LET r == create_project(opts, struct, d)
        a == discover_actions(opts.extensions) IN
    [disk |-> r.disk, report |-> r.report, ran |-> r.ran,
     stdout |-> <<"Planned Actions:">> \o a.plan,
     exit |-> IF r.failed THEN 1 ELSE 0]

\* list_actions(opts): what it leaves behind.
list_actions(opts, struct, d) ==
    LET a == discover_actions(opts.extensions) IN
    [disk |-> d, report |-> <<>>, ran |-> {},
     stdout |-> IF a.err THEN <<>> ELSE <<"Planned Actions:">> \o a.plan,
     exit |-> IF a.err THEN 1 ELSE 0]

\* ---- Spec: main(args) for a project name with every set of flags, every
\* marking of the generated paths and every state of the project tree.
MainFlags == <<"--force", "--update", "--pretend", "--list-actions", "--with-tox">>

RECURSIVE FlagsOf(_, _)
FlagsOf(fl, S) ==
    IF fl = <<>> THEN <<>>
    ELSE (IF Head(fl) \in S THEN <<Flag(Head(fl))>> ELSE <<>>)
         \o FlagsOf(Tail(fl), S)

Markers == {"plain", "managed", "preserve"}

\* The trees that can be on disk: files only under an existing root.
Disks ==
    {d \in [{".", "setup.py", "requirements.txt", "my_project/__init__.py",
              "tox.ini"} -> {"absent", "old"}] :
        d[ROOT] = "absent" => \A q \in AllPaths : d[q] = "absent"}

Init ==
    /\ \E S \in SUBSET {MainFlags[i] : i \in 1..Len(MainFlags)} :
          argv = <<Word(W_p)>> \o FlagsOf(MainFlags, S)
    /\ profile = SetTo("none") /\ files = <<>> /\ environ = UnixEnviron /\ dirs = UnixDirs
    /\ exhaust = "RecursionError"
    /\ structure \in [AllPaths -> Markers]
    /\ disk0 \in Disks /\ disk = disk0
    /\ report = <<>> /\ stdout = <<>> /\ ran = {}
    /\ RunIdle /\ CfgIdle /\ RegIdle /\ TokIdle

Parsed == parse_args(argv, profile, files, dirs, exhaust)

Finish(r) ==
    /\ pc' = "done"
    /\ disk' = r.disk /\ report' = r.report /\ ran' = r.ran
    /\ stdout' = r.stdout /\ exitcode' = r.exit
    /\ UNCHANGED <<envVars, cfgVars, structure, disk0, regVars, tokVars>>

\* main(args) when parse_args ends the process
MainExit ==
    /\ pc = "start" /\ Parsed.status # "ok"
    /\ result' = Parsed
    /\ pc' = "exit" /\ exitcode' = ExitCode(Parsed.status)
    /\ UNCHANGED <<envVars, cfgVars, fsVars, regVars, tokVars>>

\* main(args) when opts['command'] is run_scaffold
MainRunScaffold ==
    /\ pc = "start" /\ Parsed.status = "ok"
    /\ Parsed.opts.command = "run_scaffold"
    /\ result' = Parsed
    /\ Finish(run_scaffold(Parsed.opts, structure, disk))

\* main(args) when opts['command'] is list_actions
MainListActions ==
    /\ pc = "start" /\ Parsed.status = "ok"
    /\ Parsed.opts.command = "list_actions"
    /\ result' = Parsed
    /\ Finish(list_actions(Parsed.opts, structure, disk))

Next == MainExit \/ MainRunScaffold \/ MainListActions

Spec == Init /\ [][Next]_vars

\* ------------------------------------------------------ claims about main
Entries(rep) ==
    {rep[i] : i \in {j \in 1..Len(rep) : rep[j][1] \in {"create", "run"}}}

\* The command line without its pretend flags, and what a real run of it
\* leaves behind from the same tree.
RECURSIVE Without(_, _)
Without(toks, flags) ==
    IF toks = <<>> THEN <<>>
    ELSE (IF Head(toks).opt \in flags THEN <<>> ELSE <<Head(toks)>>)
         \o Without(Tail(toks), flags)

RealRun ==
    run_scaffold(
        parse_args(Without(argv, PretendFlags), profile, files, dirs, exhaust).opts,
        structure, disk0)

\* C1: a run with the pretend flag reports the same create and run entries
\* as the real run with the same options from the same tree, and leaves the
\* tree as it was and runs no external command.
C1_PretendEquivalent ==
    (pc = "done" /\ Given(argv, PretendFlags)) =>
        /\ Entries(report) = Entries(RealRun.report)
        /\ disk = disk0
        /\ ran = {}

C1_Witness ==
    /\ pc = "done" /\ Given(argv, PretendFlags) /\ exitcode = 0
    /\ disk0[ROOT] = "absent" /\ disk[ROOT] = "absent"
    /\ <<"create", "setup.py">> \in Entries(report)
    /\ <<"run", "git init">> \in Entries(report)
    /\ RealRun.disk[ROOT] = "new"

\* The paths of the final structure for the command line.
Generated ==
    {GenPaths[i] : i \in 1..Len(GenPaths)}
        \cup (IF Given(argv, {"--with-tox"}) THEN {TOX_INI} ELSE {})

RealDone ==
    /\ pc = "done" /\ exitcode = 0
    /\ ~Given(argv, PretendFlags) /\ ~Given(argv, ListFlags)

\* C3: after a real run on a tree that exists: with update and without
\* force, an existing generated path is overwritten exactly when it is
\* marked managed-for-update, and every other existing path is as it was;
\* with force every generated path is overwritten.
C3_UpdateAndForce ==
    (RealDone /\ disk0[ROOT] = "old") =>
        /\ (Given(argv, {"-U", "--update"}) /\ ~Given(argv, {"-f", "--force"})) =>
               \A q \in AllPaths :
                   disk0[q] = "old" =>
                       disk[q] = IF q \in Generated /\ structure[q] = "managed"
                                 THEN "new" ELSE "old"
        /\ Given(argv, {"-f", "--force"}) =>
               \A q \in Generated : disk[q] = "new"

C3_Witness ==
    /\ RealDone /\ disk0[ROOT] = "old"
    /\ Given(argv, {"--update"}) /\ ~Given(argv, {"--force"})
    /\ \E q, r \in Generated :
          /\ disk0[q] = "old" /\ structure[q] = "managed" /\ disk[q] = "new"
          /\ disk0[r] = "old" /\ structure[r] # "managed" /\ disk[r] = "old"

\* The identifiers list-actions is to print, in execution order.
ExpectedPlan ==
    IF Given(argv, {"--with-tox"})
    THEN <<GET_DEFAULT_OPTIONS, VERIFY_OPTIONS, DEFINE_STRUCTURE,
           TOX_ADD_FILES, CREATE_STRUCTURE, INIT_GIT>>
    ELSE <<GET_DEFAULT_OPTIONS, VERIFY_OPTIONS, DEFINE_STRUCTURE,
           CREATE_STRUCTURE, INIT_GIT>>

\* C4: a list-actions run changes nothing on disk, runs no command, reports
\* no create or run entry, prints the identifiers of the resolved plan in
\* execution order and exits 0, also on a tree on which the real run fails.
C4_ListActionsOnlyLists ==
    (pc = "done" /\ Given(argv, ListFlags)) =>
        /\ disk = disk0 /\ ran = {} /\ Entries(report) = {}
        /\ stdout = <<"Planned Actions:">> \o ExpectedPlan
        /\ exitcode = 0

C4_Witness ==
    /\ pc = "done" /\ Given(argv, ListFlags) /\ Given(argv, {"--with-tox"})
    /\ ~Given(argv, {"--force", "--update"})
    /\ disk0[ROOT] = "old" /\ RealRun.exit = 1
    /\ exitcode = 0 /\ disk = disk0

=============================================================================
